---- MODULE Spec2Model ----
(***************************************************************************)
(* MarketLens AI (src/aap.py): get_stock_data, create_pdf and the verdict  *)
(* banner of the page script, as a state machine.                          *)
(*                                                                         *)
(* Numbers.  Money amounts (price, eps, bvps, closes) are integers in      *)
(* hundredths of the currency unit.  The square root of the Graham number  *)
(* is truncated to hundredths (ISqrt); every other float expression is     *)
(* rational and is kept exact as a reduced fraction (Frac).  Python's None *)
(* is the value None, a Python float is Num(n), a numpy.float64 is Np(n):  *)
(* the two differ in what a division by zero does.                         *)
(* Date ordinals are days counted from the first day of the series; the    *)
(* least-squares prediction does not depend on the epoch.                  *)
(*                                                                         *)
(* Left out: search_ticker, the st.cache_data memoisation, the chart, and  *)
(* the display-only fields (name, currency, market cap, 52-week range,     *)
(* summary, trailing P/E, analyst target, stock_obj) with the page code    *)
(* that prints them, and the PDF library behind create_pdf.                *)
(***************************************************************************)
EXTENDS Integers, Sequences, FiniteSets, TLC

\* ------------------------------------------------------------------ bounds
\* Longest 1-year price history the provider returns in the model.
MaxHistLen == 3

\* ------------------------------------------------------- program constants
Horizon == 30
Threshold == 15

\* ------------------------------------------------------------ Python values
None == [t |-> "none"]
Unset == [t |-> "unset"]
Absent == [t |-> "absent"]
Raised == [t |-> "raise"]
Num(n) == [t |-> "num", v |-> n]
Np(n) == [t |-> "np", v |-> n]
Str(s) == [t |-> "str", v |-> s]
PosInf == [t |-> "inf"]
ZeroDivisionError == [t |-> "ZeroDivisionError"]

IsNum(x) == x.t \in {"num", "np"}

Abs(n) == IF n < 0 THEN -n ELSE n

RECURSIVE GCD(_, _)
GCD(a, b) == IF b = 0 THEN a ELSE GCD(b, a % b)

\* The exact value n/d (d # 0) in lowest terms with a positive denominator.
Frac(n, d) ==
    LET g == GCD(Abs(n), Abs(d))
        s == IF d < 0 THEN -1 ELSE 1
    IN  [t |-> "frac", n |-> s * (n \div g), d |-> Abs(d) \div g]

\* f > k and f < k for a fraction or +inf f and an integer k.
FracGT(f, k) == IF f.t = "inf" THEN TRUE ELSE f.n > k * f.d
FracLT(f, k) == IF f.t = "inf" THEN FALSE ELSE f.n < k * f.d

\* ------------------------------------------------------- provider's answers
FastPrices == {None, Num(0), Num(300), Num(10000), Num(11000)}
DayCloses == {0, 10000}
FirstCloses == {10000}
HistCloses == {10000, 11000}

EpsOptions == {Absent, None, Num(-200), Num(10), Num(1000)}
BvpsOptions == {Absent, None, Num(289), Num(529), Num(5000)}
PrevCloseOptions == {Absent, None, Num(9000)}
SectorOptions == {Absent, Str("Technology")}
RecOptions == {Absent, None, Str("strong_buy")}
DivOptions == {None, Num(2)}

\* Ordinal of the i-th trading day of a history (irregular: a weekend gap).
Day(i) == IF i = 1 THEN 0 ELSE 10 + 7 * (i - 2)

Point(i, c) == [date |-> Day(i), close |-> c]

\* Every history of n rows: strictly increasing dates, closes from cs.
Histories(n, cs) == { [i \in 1..n |-> Point(i, f[i])] : f \in [1..n -> cs] }

\* The 1-year histories: up to MaxHistLen rows, the first close from FirstCloses.
YearHistories ==
    { h \in UNION { Histories(n, HistCloses) : n \in 0..MaxHistLen } :
        Len(h) > 0 => h[1].close \in FirstCloses }
DayHistories == UNION { Histories(n, DayCloses) : n \in 0..1 }

\* The dict of the keys the provider supplied.
MkInfo(opts) == [k \in {j \in DOMAIN opts : opts[j] # Absent} |-> opts[k]]

\* dict.get(k, default)
Get(d, k, default) == IF k \in DOMAIN d THEN d[k] ELSE default


\* ------------------------------------------------------- float arithmetic
FromInt(n) == Frac(n, 1)
\* Exact sums and products, over the least common denominator and with the
\* common factors cancelled first, which keeps the integers small.
FracAdd(a, b) ==
    LET g == GCD(a.d, b.d)
    IN  Frac(a.n * (b.d \div g) + b.n * (a.d \div g), (a.d \div g) * b.d)
FracSub(a, b) == FracAdd(a, [b EXCEPT !.n = -b.n])
FracMul(a, b) ==
    LET g1 == GCD(Abs(a.n), b.d)
        g2 == GCD(Abs(b.n), a.d)
    IN  Frac((a.n \div g1) * (b.n \div g2), (a.d \div g2) * (b.d \div g1))
FracDiv(a, b) == FracMul(a, Frac(b.d, b.n))

RECURSIVE FracSum(_)
FracSum(s) == IF s = <<>> THEN FromInt(0) ELSE FracAdd(Head(s), FracSum(Tail(s)))

RECURSIVE SqrtSearch(_, _, _)
SqrtSearch(lo, hi, r) ==
    IF lo >= hi THEN lo
    ELSE LET mid == (lo + hi + 1) \div 2
         IN  IF mid * mid <= r THEN SqrtSearch(mid, hi, r)
             ELSE SqrtSearch(lo, mid - 1, r)

\* r ** 0.5 in hundredths when r is in squared hundredths, truncated.
ISqrt(r) == SqrtSearch(0, 46340, r)

\* The multiplier written as 22 instead of 22.5.
GrahamNum_Multiplier22(e, b) == ISqrt((220 * e * b) \div 10)

\* (22.5 * eps * bvps) ** 0.5
GrahamNum(e, b) == ISqrt((225 * e * b) \div 10)

\* ------------------------------------------- sklearn's LinearRegression
FracMean(s) == FracDiv(FracSum(s), FromInt(Len(s)))

Centered(s, m) == [i \in 1..Len(s) |-> FracSub(s[i], m)]

Products(a, b) == [i \in 1..Len(a) |-> FracMul(a[i], b[i])]

\* The minimum-norm least-squares solution of Xc * coef = yc for one feature:
\* zero when the centred column is all zero.
Lstsq(Xc, yc) ==
    LET sxx == FracSum(Products(Xc, Xc))
        sxy == FracSum(Products(Xc, yc))
    IN  IF sxx.n = 0 THEN FromInt(0) ELSE FracDiv(sxy, sxx)

\* model.fit(X, y): centre both, solve, intercept = mean(y) - mean(X) * coef.
Fit(X, y) ==
    LET xs == [i \in 1..Len(X) |-> FromInt(X[i])]
        ys == [i \in 1..Len(y) |-> FromInt(y[i])]
        X_offset == FracMean(xs)
        y_offset == FracMean(ys)
        coef == Lstsq(Centered(xs, X_offset), Centered(ys, y_offset))
    IN  [coef_ |-> coef, intercept_ |-> FracSub(y_offset, FracMul(X_offset, coef))]

\* model.predict([[x]])[0]
Predict(model, x) == FracAdd(FracMul(model.coef_, FromInt(x)), model.intercept_)

\* The prediction made at the last row's index + 30 instead of its ordinal + 30.
Forecast_RowIndex(hist, price) ==
    LET X == [i \in 1..Len(hist) |-> hist[i].date]
        y == [i \in 1..Len(hist) |-> hist[i].close]
        model == Fit(X, y)
        target == Predict(model, Len(X) + Horizon)
    IN  IF IsNum(price)
        THEN [ai_price_target |-> target,
              trend_direction |-> IF FracGT(target, price.v) THEN "Bullish" ELSE "Bearish"]
        ELSE [ai_price_target |-> target, trend_direction |-> "Neutral"]

\* Lines 120-135: the regression over a non-empty history, then the trend.
\* The comparison with a None price raises; the except of line 136 keeps
\* the target already assigned and the trend's initial value.
Forecast(hist, price) ==
    LET X == [i \in 1..Len(hist) |-> hist[i].date]
        y == [i \in 1..Len(hist) |-> hist[i].close]
        model == Fit(X, y)
        future_ordinal == X[Len(X)] + Horizon
        target == Predict(model, future_ordinal)
    IN  IF IsNum(price)
        THEN [ai_price_target |-> target,
              trend_direction |-> IF FracGT(target, price.v) THEN "Bullish" ELSE "Bearish"]
        ELSE [ai_price_target |-> target, trend_direction |-> "Neutral"]

\* Lines 116-137.
TrendPrediction(out, price) ==
    IF out = Raised \/ out.rows = <<>>
    THEN [ai_price_target |-> Num(0), trend_direction |-> "Neutral"]
    ELSE Forecast(out.rows, price)

\* str.replace('_', ' ').title() on the strings the model uses.
TitleCase(s) ==
    CASE s = "strong_buy" -> "Strong Buy"
      [] s = "N/A" -> "N/A"
      [] OTHER -> s


\* ------------------------------------------------------------------- state
VARIABLES
    pc,                 \* where the page script's run stands
    fastOut,            \* what stock.fast_info['last_price'] did
    dayOut,             \* what stock.history(period="1d") did
    infoOut,            \* what stock.info did
    yearOut,            \* what stock.history(period="1y") did
    current_price, info, eps, bvps, negative_earnings, graham_num,
    trend_direction, ai_price_target,
    data,               \* what get_stock_data returned
    pdf,                \* what create_pdf wrote in its valuation section
    banner              \* what the verdict banner showed

vars == <<pc, fastOut, dayOut, infoOut, yearOut, current_price, info, eps, bvps,
          negative_earnings, graham_num, trend_direction, ai_price_target,
          data, pdf, banner>>

Frame(rows) == [t |-> "frame", rows |-> rows]

EmptyInfo == MkInfo([k \in {} |-> Absent])

\* The run has a ticker and enters get_stock_data (lines 233-235, 73-78).
Init ==
    /\ pc = "layer1"
    /\ fastOut = Unset /\ dayOut = Unset /\ infoOut = Unset /\ yearOut = Unset
    /\ current_price = Num(0)
    /\ info = EmptyInfo
    /\ eps = Unset /\ bvps = Unset
    /\ negative_earnings = Unset /\ graham_num = Unset
    /\ trend_direction = Unset /\ ai_price_target = Unset
    /\ data = Unset
    /\ pdf = Unset /\ banner = Unset

\* Lines 79-81: the fast quote; any exception sends control to the fallback.
Layer1Fast ==
    /\ pc = "layer1"
    /\ \E out \in FastPrices \cup {Raised} :
        /\ fastOut' = out
        /\ IF out = Raised
           THEN pc' = "history_1d" /\ UNCHANGED current_price
           ELSE pc' = "layer2" /\ current_price' = out
    /\ UNCHANGED <<dayOut, infoOut, yearOut, info, eps, bvps, negative_earnings,
                   graham_num, trend_direction, ai_price_target, data, pdf, banner>>

\* The empty 1-day history falling through with the initial price 0.0 instead
\* of returning None.
Layer1History_EmptyFallsThrough ==
    /\ pc = "history_1d"
    /\ \E out \in {Raised} \cup {Frame(h) : h \in DayHistories} :
        /\ dayOut' = out
        /\ IF out = Raised
           THEN pc' = "returned" /\ data' = None /\ UNCHANGED current_price
           ELSE /\ pc' = "layer2"
                /\ current_price' = IF Len(out.rows) = 0 THEN current_price
                                    ELSE Np(out.rows[Len(out.rows)].close)
                /\ UNCHANGED data
    /\ UNCHANGED <<fastOut, infoOut, yearOut, info, eps, bvps, negative_earnings,
                   graham_num, trend_direction, ai_price_target, pdf, banner>>

\* Lines 82-90: one day of history; empty or failing, the function returns None.
Layer1History ==
    /\ pc = "history_1d"
    /\ \E out \in {Raised} \cup {Frame(h) : h \in DayHistories} :
        /\ dayOut' = out
        /\ IF out = Raised \/ Len(out.rows) = 0
           THEN pc' = "returned" /\ data' = None /\ UNCHANGED current_price
           ELSE /\ pc' = "layer2"
                /\ current_price' = Np(out.rows[Len(out.rows)].close)
                /\ UNCHANGED data
    /\ UNCHANGED <<fastOut, infoOut, yearOut, info, eps, bvps, negative_earnings,
                   graham_num, trend_direction, ai_price_target, pdf, banner>>

\* Lines 105-113 on the dict i.  Comparing None with 0 raises TypeError, which
\* the except of line 163 turns into a None result; `and` skips bvps > 0 when
\* eps > 0 is false.
Valuation(i) ==
    LET e == Get(i, "trailingEps", Num(0))
        b == Get(i, "bookValue", Num(0))
    IN  IF ~IsNum(e)
        THEN [raised |-> TRUE, eps |-> e, bvps |-> b,
              negative_earnings |-> Unset, graham_num |-> Unset]
        ELSE IF e.v > 0 /\ ~IsNum(b)
        THEN [raised |-> TRUE, eps |-> e, bvps |-> b,
              negative_earnings |-> e.v < 0, graham_num |-> Num(0)]
        ELSE [raised |-> FALSE, eps |-> e, bvps |-> b,
              negative_earnings |-> e.v < 0,
              graham_num |-> IF e.v > 0 /\ b.v > 0
                             THEN Num(GrahamNum(e.v, b.v)) ELSE Num(0)]

\* Lines 92-113: the metadata (an empty dict when the fetch fails), then the
\* valuation.
Layer2Metadata ==
    /\ pc = "layer2"
    /\ \E failed \in BOOLEAN, e \in EpsOptions, b \in BvpsOptions,
          pv \in PrevCloseOptions, s \in SectorOptions, r \in RecOptions,
          dv \in DivOptions :
        LET fetched == MkInfo([trailingEps |-> e, bookValue |-> b,
                               previousClose |-> pv, sector |-> s,
                               recommendationKey |-> r, dividendYield |-> dv])
            i == IF failed THEN EmptyInfo ELSE fetched
            val == Valuation(i)
        IN  /\ failed => fetched = EmptyInfo
            /\ infoOut' = IF failed THEN Raised ELSE Str("ok")
            /\ info' = i
            /\ eps' = val.eps /\ bvps' = val.bvps
            /\ negative_earnings' = val.negative_earnings
            /\ graham_num' = val.graham_num
            /\ IF val.raised
               THEN pc' = "returned" /\ data' = None
               ELSE pc' = "layer3" /\ UNCHANGED data
    /\ UNCHANGED <<fastOut, dayOut, yearOut, current_price, trend_direction,
                   ai_price_target, pdf, banner>>

\* Lines 139-162: the returned dict, or `raised` when an expression in it
\* raises (None - None, None - number, None.replace).
Record(price, i, e, b, neg, g, trend, target) ==
    LET prev == Get(i, "previousClose", price)
        rec == Get(i, "recommendationKey", Str("N/A"))
        dy == Get(i, "dividendYield", None)
    IN  IF ~IsNum(price) \/ ~IsNum(prev) \/ rec.t # "str"
        THEN None
        ELSE [t |-> "dict",
              price |-> price,
              change |-> Num(price.v - prev.v),
              eps |-> e,
              bvps |-> b,
              div_yield |-> IF IsNum(dy) /\ dy.v # 0 THEN Num(dy.v * 100) ELSE Num(0),
              sector |-> Get(i, "sector", Str("Unknown")),
              graham_num |-> g,
              negative_earnings |-> neg,
              ai_trend |-> trend,
              ai_price |-> target,
              analyst_rec |-> Str(TitleCase(rec.v))]

\* Lines 115-165: the trend prediction, then the result.
Layer3Trend ==
    /\ pc = "layer3"
    /\ \E out \in {Raised} \cup {Frame(h) : h \in YearHistories} :
        LET tp == TrendPrediction(out, current_price)
        IN  /\ yearOut' = out
            /\ trend_direction' = tp.trend_direction
            /\ ai_price_target' = tp.ai_price_target
            /\ data' = Record(current_price, info, eps, bvps, negative_earnings,
                              graham_num, tp.trend_direction, tp.ai_price_target)
    /\ pc' = "returned"
    /\ UNCHANGED <<fastOut, dayOut, infoOut, current_price, info, eps, bvps,
                   negative_earnings, graham_num, pdf, banner>>

\* ((graham_num - price) / price) * 100.  A Python float divided by 0.0 raises;
\* a positive number divided by numpy's 0.0 is inf.
Margin(g, price) ==
    IF price.v = 0
    THEN IF price.t = "np" /\ g.v > 0 THEN PosInf ELSE ZeroDivisionError
    ELSE FracMul(Frac(g.v - price.v, price.v), FromInt(100))

\* The report's sign test reversed.
CreatePdf_SignReversed(d) ==
    IF d.negative_earnings
    THEN [verdict |-> "NEGATIVE_EARNINGS", margin |-> Unset]
    ELSE IF d.graham_num.v > 0
    THEN LET margin == Margin(d.graham_num, d.price)
         IN  IF margin = ZeroDivisionError
             THEN [verdict |-> "PDF_FAILED", margin |-> margin]
             ELSE [verdict |-> IF FracLT(margin, 0) THEN "UNDERVALUED" ELSE "OVERVALUED",
                   margin |-> margin]
    ELSE [verdict |-> "NONE", margin |-> Unset]

\* Lines 188-197: the valuation section of the report.  An exception leaves
\* create_pdf and is caught at line 257.
CreatePdf(d) ==
    IF d.negative_earnings
    THEN [verdict |-> "NEGATIVE_EARNINGS", margin |-> Unset]
    ELSE IF d.graham_num.v > 0
    THEN LET margin == Margin(d.graham_num, d.price)
         IN  IF margin = ZeroDivisionError
             THEN [verdict |-> "PDF_FAILED", margin |-> margin]
             ELSE [verdict |-> IF FracGT(margin, 0) THEN "UNDERVALUED" ELSE "OVERVALUED",
                   margin |-> margin]
    ELSE [verdict |-> "NONE", margin |-> Unset]

\* The banner's band made inclusive: diff >= 15 and diff <= -15.
Banner_Inclusive(d) ==
    IF d.negative_earnings
    THEN [verdict |-> "NEGATIVE_EARNINGS", diff |-> Unset]
    ELSE IF d.graham_num.v > 0
    THEN LET diff == Margin(d.graham_num, d.price)
         IN  IF diff = ZeroDivisionError
             THEN [verdict |-> "EXCEPTION", diff |-> diff]
             ELSE IF ~FracLT(diff, Threshold)
             THEN [verdict |-> "UNDERVALUED", diff |-> diff]
             ELSE IF ~FracGT(diff, -Threshold)
             THEN [verdict |-> "OVERVALUED", diff |-> diff]
             ELSE [verdict |-> "FAIRLY_VALUED", diff |-> diff]
    ELSE [verdict |-> "NONE", diff |-> Unset]

\* The banner's second test written graham_num >= 0.
Banner_ZeroGraham(d) ==
    IF d.negative_earnings
    THEN [verdict |-> "NEGATIVE_EARNINGS", diff |-> Unset]
    ELSE IF d.graham_num.v >= 0
    THEN LET diff == Margin(d.graham_num, d.price)
         IN  IF diff = ZeroDivisionError
             THEN [verdict |-> "EXCEPTION", diff |-> diff]
             ELSE IF FracGT(diff, Threshold)
             THEN [verdict |-> "UNDERVALUED", diff |-> diff]
             ELSE IF FracLT(diff, -Threshold)
             THEN [verdict |-> "OVERVALUED", diff |-> diff]
             ELSE [verdict |-> "FAIRLY_VALUED", diff |-> diff]
    ELSE [verdict |-> "NONE", diff |-> Unset]

\* Lines 263-292: the verdict banner.  An exception ends the run.
Banner(d) ==
    IF d.negative_earnings
    THEN [verdict |-> "NEGATIVE_EARNINGS", diff |-> Unset]
    ELSE IF d.graham_num.v > 0
    THEN LET diff == Margin(d.graham_num, d.price)
         IN  IF diff = ZeroDivisionError
             THEN [verdict |-> "EXCEPTION", diff |-> diff]
             ELSE IF FracGT(diff, Threshold)
             THEN [verdict |-> "UNDERVALUED", diff |-> diff]
             ELSE IF FracLT(diff, -Threshold)
             THEN [verdict |-> "OVERVALUED", diff |-> diff]
             ELSE [verdict |-> "FAIRLY_VALUED", diff |-> diff]
    ELSE [verdict |-> "NONE", diff |-> Unset]

\* Lines 237-292 and 346-348: the page for a result, or the error message.
Render ==
    /\ pc = "returned"
    /\ IF data.t = "dict"
       THEN pdf' = CreatePdf(data) /\ banner' = Banner(data)
       ELSE pdf' = Unset /\ banner' = [verdict |-> "LOAD_ERROR", diff |-> Unset]
    /\ pc' = "rendered"
    /\ UNCHANGED <<fastOut, dayOut, infoOut, yearOut, current_price, info, eps, bvps,
                   negative_earnings, graham_num, trend_direction, ai_price_target,
                   data>>

\* The next interaction runs the script again from the top.
Rerun ==
    /\ pc = "rendered"
    /\ pc' = "layer1"
    /\ fastOut' = Unset /\ dayOut' = Unset /\ infoOut' = Unset /\ yearOut' = Unset
    /\ current_price' = Num(0)
    /\ info' = EmptyInfo
    /\ eps' = Unset /\ bvps' = Unset
    /\ negative_earnings' = Unset /\ graham_num' = Unset
    /\ trend_direction' = Unset /\ ai_price_target' = Unset
    /\ data' = Unset
    /\ pdf' = Unset /\ banner' = Unset

Next ==
    \/ Layer1Fast
    \/ Layer1History
    \/ Layer2Metadata
    \/ Layer3Trend
    \/ Render
    \/ Rerun

Spec == Init /\ [][Next]_vars


\* ================================================================= claims
Returned == pc \in {"returned", "rendered"}
HasRecord == data.t = "dict"
Rendered == pc = "rendered" /\ HasRecord

NotApplicable == {"NEGATIVE_EARNINGS", "NONE"}

DayEmpty == dayOut.t = "frame" /\ Len(dayOut.rows) = 0
DayPrice == dayOut.t = "frame" /\ Len(dayOut.rows) > 0
YearRows == IF yearOut.t = "frame" THEN Len(yearOut.rows) ELSE 0

\* A source supplied a number as the price.
PriceObtained == IsNum(fastOut) \/ (fastOut = Raised /\ DayPrice)

RECURSIVE Sigma(_, _)
Sigma(f, n) == IF n = 0 THEN 0 ELSE f[n] + Sigma(f, n - 1)

\* The textbook least-squares line through the rows of h, evaluated at x:
\* b = (n Sxy - Sx Sy) / (n Sxx - Sx^2), a = (Sy - b Sx) / n.
OlsAt(h, x) ==
    LET n == Len(h)
        Sx == Sigma([i \in 1..n |-> h[i].date], n)
        Sy == Sigma([i \in 1..n |-> h[i].close], n)
        Sxy == Sigma([i \in 1..n |-> h[i].date * h[i].close], n)
        Sxx == Sigma([i \in 1..n |-> h[i].date * h[i].date], n)
        D == n * Sxx - Sx * Sx
        N == n * Sxy - Sx * Sy
    IN  Frac(Sy * D + N * (n * x - Sx), n * D)

\* C1: a record with eps <= 0 or bvps <= 0 has graham_num 0, and neither the
\* banner nor the report gives it an UNDERVALUED, OVERVALUED or FAIRLY VALUED
\* verdict: both show the negative-earnings notice or nothing.
C1_NotApplicable ==
    (HasRecord /\ ( (IsNum(data.eps) /\ data.eps.v <= 0)
                 \/ (IsNum(data.bvps) /\ data.bvps.v <= 0) ))
    => /\ data.graham_num = Num(0)
       /\ pc = "rendered" => /\ banner.verdict \in NotApplicable
                             /\ pdf.verdict \in NotApplicable

C1_Witness ==
    /\ Rendered
    /\ data.eps.v > 0 /\ IsNum(data.bvps) /\ data.bvps.v = 0
    /\ data.graham_num = Num(0)
    /\ banner.verdict = "NONE" /\ pdf.verdict = "NONE"

\* C2: a record with eps > 0 and bvps > 0 has graham_num = sqrt(22.5 * eps * bvps)
\* (to the hundredth: graham_num >= 0 and graham_num^2 <= 22.5 eps bvps <
\* (graham_num + 0.01)^2); eps 10, bvps 50, price 100 gives graham_num^2 = 11250,
\* a margin of about 6.07 %, FAIRLY_VALUED in the banner (15 % band) and
\* UNDERVALUED in the report (sign test).
C2_GrahamNumber ==
    (HasRecord /\ IsNum(data.bvps) /\ data.eps.v > 0 /\ data.bvps.v > 0)
    => LET g == data.graham_num.v
           r2 == 45 * data.eps.v * data.bvps.v
       IN  /\ g >= 0 /\ 2 * g * g <= r2 /\ r2 < 2 * (g + 1) * (g + 1)
           /\ (data.eps.v = 1000 /\ data.bvps.v = 5000 /\ data.price.v = 10000)
              => /\ g * g <= 112500000 /\ 112500000 < (g + 1) * (g + 1)
                 /\ pc = "rendered"
                    => /\ 606 * banner.diff.d <= 100 * banner.diff.n
                       /\ 100 * banner.diff.n <= 608 * banner.diff.d
                       /\ banner.verdict = "FAIRLY_VALUED"
                       /\ pdf.verdict = "UNDERVALUED"

C2_Witness ==
    /\ Rendered
    /\ data.eps = Num(1000) /\ data.bvps = Num(5000) /\ data.price.v = 10000
    /\ data.graham_num = Num(10606)
    /\ banner.verdict = "FAIRLY_VALUED" /\ pdf.verdict = "UNDERVALUED"

\* C3: for a rendered record with graham_num > 0, eps not negative and a
\* margin (price > 0), margin = (graham_num - price) / price * 100, the banner
\* says UNDERVALUED exactly when margin > 15, OVERVALUED exactly when
\* margin < -15, and FAIRLY_VALUED exactly when -15 <= margin <= 15.
C3_ExclusiveBand ==
    (Rendered /\ ~data.negative_earnings /\ data.graham_num.v > 0 /\ data.price.v > 0)
    => LET p == data.price.v
           m == (data.graham_num.v - p) * 100
       IN  /\ banner.verdict = "UNDERVALUED" <=> m > Threshold * p
           /\ banner.verdict = "OVERVALUED" <=> m < (-Threshold) * p
           /\ banner.verdict = "FAIRLY_VALUED"
                <=> ((-Threshold) * p <= m /\ m <= Threshold * p)

C3_Witness ==
    /\ Rendered /\ ~data.negative_earnings
    /\ data.graham_num.v = 345 /\ data.price.v = 300
    /\ banner.diff = FromInt(Threshold)
    /\ banner.verdict = "FAIRLY_VALUED"

\* C4: the 1-day history is consulted only after the fast quote has failed;
\* when the fast quote fails and the 1-day history is empty or fails, the
\* function returns None without reading the metadata; a record carries the
\* price one of the two sources supplied.
C4_PriceFallback ==
    /\ dayOut # Unset => fastOut = Raised
    /\ (fastOut = Raised /\ (dayOut = Raised \/ DayEmpty))
       => pc = "returned" \/ pc = "rendered"
    /\ (Returned /\ fastOut = Raised /\ (dayOut = Raised \/ DayEmpty))
       => data = None /\ infoOut = Unset /\ yearOut = Unset
    /\ HasRecord
       => \/ IsNum(fastOut) /\ dayOut = Unset /\ data.price = fastOut
          \/ /\ fastOut = Raised /\ DayPrice
             /\ data.price = Np(dayOut.rows[Len(dayOut.rows)].close)

C4_Witness ==
    /\ pc = "returned" /\ fastOut = Raised /\ DayEmpty /\ data = None

\* C5: a missing price is the only fatal condition: once a source supplied a
\* price, get_stock_data returns a record whatever the metadata and the
\* 1-year history did, with eps, bvps and sector defaulted when absent.
C5_OnlyPriceIsFatal ==
    (Returned /\ PriceObtained)
    => /\ HasRecord
       /\ "trailingEps" \notin DOMAIN info => data.eps = Num(0)
       /\ "bookValue" \notin DOMAIN info => data.bvps = Num(0)
       /\ "sector" \notin DOMAIN info => data.sector = Str("Unknown")
       /\ "previousClose" \notin DOMAIN info => data.change = Num(0)

\* C6: every record has price > 0, so neither the banner nor the report
\* divides by zero.
C6_PositivePrice ==
    HasRecord
    => /\ data.price.v > 0
       /\ pc = "rendered" => /\ banner.verdict # "EXCEPTION"
                             /\ pdf.verdict # "PDF_FAILED"

\* C7: when the 1-year history is empty (and a price was obtained), the
\* function returns a record, with ai_price 0 and ai_trend Neutral.
C7_EmptyHistory ==
    (Returned /\ PriceObtained /\ yearOut.t = "frame" /\ YearRows = 0)
    => /\ HasRecord
       /\ data.ai_price = Num(0)
       /\ data.ai_trend = "Neutral"

\* C8: a record made from a 1-year history of exactly one row has ai_trend
\* Neutral and ai_price equal to the current price.
C8_SinglePoint ==
    (HasRecord /\ YearRows = 1)
    => /\ data.ai_trend = "Neutral"
       /\ data.ai_price = FromInt(data.price.v)

\* C9: a record made from a history of two or more rows has ai_price on the
\* least-squares line through (ordinal, close) at the last ordinal + 30, and
\* ai_trend Bullish exactly when ai_price > price, Bearish otherwise; the
\* rows (0, 100.00), (10, 110.00) with price 110.00 give 140.00 and Bullish.
C9_LeastSquares ==
    (HasRecord /\ YearRows >= 2)
    => LET h == yearOut.rows
           ols == OlsAt(h, h[Len(h)].date + Horizon)
           above == ols.n > data.price.v * ols.d
       IN  /\ data.ai_price = ols
           /\ data.ai_trend = (IF above THEN "Bullish" ELSE "Bearish")
           /\ (h = <<Point(1, 10000), Point(2, 11000)>> /\ data.price.v = 11000)
              => data.ai_price = FromInt(14000) /\ data.ai_trend = "Bullish"

C9_Witness ==
    /\ HasRecord
    /\ yearOut = Frame(<<[date |-> 0, close |-> 10000], [date |-> 10, close |-> 11000]>>)
    /\ data.price.v = 11000
    /\ data.ai_price = FromInt(14000) /\ data.ai_trend = "Bullish"

Branch(v) ==
    CASE v = "NEGATIVE_EARNINGS" -> "negative earnings"
      [] v = "NONE" -> "no verdict"
      [] OTHER -> "valuation"

\* C10: on a rendered record with eps >= 0 and graham_num > 0, a banner that
\* says UNDERVALUED goes with a report that says UNDERVALUED, and OVERVALUED
\* with OVERVALUED; on every rendered record the banner and the report take
\* the same branch among negative earnings, valuation and no verdict.
C10_SitesAgree ==
    Rendered
    => /\ (data.eps.v >= 0 /\ data.graham_num.v > 0)
          => /\ banner.verdict = "UNDERVALUED" => pdf.verdict = "UNDERVALUED"
             /\ banner.verdict = "OVERVALUED" => pdf.verdict = "OVERVALUED"
       /\ Branch(banner.verdict) = Branch(pdf.verdict)

C10_Witness ==
    /\ Rendered /\ data.eps.v >= 0 /\ data.graham_num.v > 0
    /\ banner.verdict = "OVERVALUED" /\ pdf.verdict = "OVERVALUED"

====
